---- MODULE Spec2Model ----
(***************************************************************************)
(* Model of the 3D letter quotation calculator: the costing functions of   *)
(* app/utils/calculations.py, the input checks of app/utils/validation.py  *)
(* the two-step quotation form of app/components/quotation_form.py and the *)
(* login page and user store of app/main.py.                               *)
(*                                                                         *)
(* Numbers: Python floats are modelled as exact rationals in lowest terms  *)
(* ([num, den] with den > 0), so every identity checked here is an         *)
(* identity of the formulas, free of rounding.  Strings are sequences of   *)
(* one-character strings.                                                  *)
(***************************************************************************)
EXTENDS Integers, Sequences, FiniteSets, TLC

VARIABLES
    letter_properties,  \* st.session_state.letter_properties
    step1_completed,    \* st.session_state["step1_completed"]
    current_quote,      \* st.session_state.current_quote (None when absent)
    current_ref,        \* the object current_quote refers to (0 when None)
    quotations,         \* st.session_state.quotations: a reference and the object's value
    quotation,          \* the fields of a Quotation instance (None when there is none)
    calls,              \* the utils calls of the latest "Calculate Quote" run, in order
    call,               \* the function call under examination and its arguments
    pc,                 \* "ready" before the call, "done" after it, "idle" in the form
    ret,                \* the value the call returned
    sessions,           \* per session: started, st.session_state.authenticated and
                        \* .username, and whether authenticate_user accepted credentials
    users,              \* the content of users.json ({} when the file is missing)
    login_state,        \* the username in login_state.json (None when the file is missing)
    reg,                \* per session: the register_user call in flight and its local users
    registered          \* per username: how many register_user calls returned True

\* the state of the quotation form and of the calls under examination
formvars == <<letter_properties, step1_completed, current_quote, current_ref, quotations,
              quotation, calls, call, pc, ret>>

\* the state of the login page and of the files behind it
authvars == <<sessions, users, login_state, reg, registered>>

vars == <<formvars, authvars>>

\* Python's None, as a record so that it compares with dictionaries
None == [none |-> TRUE]

\* None held by an Optional[str], as a string so that it compares with strings
NoneStr == "None"

(***************************************************************************)
(* Bounds of the model.                                                    *)
(***************************************************************************)
MaxUnits == 1100    \* largest unit count given to calculate_bulk_discount
MaxLen == 3         \* longest text given to a text function
MaxLetters == 2     \* longest text typed into the form's text input
MaxDeliveryUnits == 120 \* largest unit count given to calculate_delivery_time
MaxClock == 1       \* latest reading of the clock, in seconds
MaxSaved == 2       \* longest list of saved quotations
MaxSessions == 2    \* number of browser sessions

(***************************************************************************)
(* Exact rational arithmetic.                                              *)
(***************************************************************************)
Abs(x) == IF x < 0 THEN -x ELSE x

RECURSIVE Gcd(_, _)
Gcd(a, b) == IF b = 0 THEN a ELSE Gcd(b, a % b)

Rat(n, d) ==
    LET g == Gcd(Abs(n), d)
    IN  [num |-> n \div g, den |-> d \div g]

R(n) == [num |-> n, den |-> 1]

RMul(a, b) ==
    LET g1 == Gcd(Abs(a.num), b.den)
        g2 == Gcd(Abs(b.num), a.den)
    IN  [num |-> (a.num \div g1) * (b.num \div g2),
         den |-> (a.den \div g2) * (b.den \div g1)]

RAdd(a, b) ==
    LET g == Gcd(a.den, b.den)
        l == (a.den \div g) * b.den
    IN  Rat(a.num * (l \div a.den) + b.num * (l \div b.den), l)

RNeg(a) == [num |-> -a.num, den |-> a.den]

RSub(a, b) == RAdd(a, RNeg(b))

RLe(a, b) == RSub(a, b).num <= 0

RLt(a, b) == RSub(a, b).num < 0

(***************************************************************************)
(* Text.                                                                   *)
(***************************************************************************)
Whitespace == {" ", "\t"}

RECURSIVE lstrip(_)
lstrip(s) ==
    IF s # <<>> /\ Head(s) \in Whitespace THEN lstrip(Tail(s)) ELSE s

RECURSIVE rstrip(_)
rstrip(s) ==
    IF s # <<>> /\ s[Len(s)] \in Whitespace
    THEN rstrip(SubSeq(s, 1, Len(s) - 1))
    ELSE s

strip(s) == rstrip(lstrip(s))

(***************************************************************************)
(* utils/calculations.py                                                   *)
(***************************************************************************)
Get(d, k, default) == IF k \in DOMAIN d THEN d[k] ELSE default

\* "Matte": 0.20 in place of 1.20
finish_multipliers_typo ==
    ("Standard" :> Rat(100, 100)) @@ ("Painted" :> Rat(125, 100)) @@
    ("High Gloss" :> Rat(135, 100)) @@ ("Matte" :> Rat(20, 100))

finish_multipliers ==
    ("Standard" :> Rat(100, 100)) @@ ("Painted" :> Rat(125, 100)) @@
    ("High Gloss" :> Rat(135, 100)) @@ ("Matte" :> Rat(120, 100))

\* finish_multipliers.get(finish, 0): an unknown finish gets no multiplier
finish_multiplier_default_zero(finish) == Get(finish_multipliers, finish, R(0))

\* finish_multipliers.get(finish, 1.0)
finish_multiplier(finish) == Get(finish_multipliers, finish, R(1))

\* finish_cost = material_cost * finish_multiplier: the full multiplied cost
finish_cost_full(material_cost, finish) ==
    RMul(material_cost, finish_multiplier(finish))

\* finish_cost = material_cost * (finish_multiplier - 1)
finish_cost_per_letter(material_cost, finish) ==
    RMul(material_cost, RSub(finish_multiplier(finish), R(1)))

\* the option statements chained with elif: at most one option is charged
options_cost_elif(area, volume, led_lighting, mounting_hardware, installation) ==
    IF led_lighting THEN RMul(RMul(area, R(15)), Rat(12, 10))
    ELSE IF mounting_hardware THEN RMul(volume, R(2))
    ELSE IF installation THEN RMul(area, R(5))
    ELSE R(0)

\* the three "if flag: options_cost += ..." statements, per letter
options_cost_per_letter(area, volume, led_lighting, mounting_hardware, installation) ==
    LET c0 == R(0)
        c1 == IF led_lighting
              THEN RAdd(c0, RMul(RMul(area, R(15)), Rat(12, 10)))
              ELSE c0
        c2 == IF mounting_hardware THEN RAdd(c1, RMul(volume, R(2))) ELSE c1
        c3 == IF installation THEN RAdd(c2, RMul(area, R(5))) ELSE c2
    IN  c3

\* subtotal adds the options cost of one letter, not of all letters
calculate_costs_options_once(material_info, height, width, depth, quantity, finish, led_lighting, mounting_hardware, installation) ==
    LET volume == RMul(RMul(height, width), depth)
        area == RMul(height, width)
        material_cost == RMul(volume, material_info.rate)
        finish_cost == finish_cost_per_letter(material_cost, finish)
        options_cost == options_cost_per_letter(area, volume, led_lighting,
                                                mounting_hardware, installation)
        per_letter_cost == RAdd(material_cost, finish_cost)
        options_total == RMul(options_cost, R(quantity))
        subtotal == RAdd(RMul(per_letter_cost, R(quantity)), options_cost)
        tax == RMul(subtotal, Rat(1, 10))
        total == RAdd(subtotal, tax)
    IN  [material_cost |-> RMul(material_cost, R(quantity)),
         finish_cost |-> RMul(finish_cost, R(quantity)),
         options_cost |-> options_total,
         subtotal |-> subtotal,
         tax |-> tax,
         total |-> total]

\* tax = subtotal * 0.01 in place of subtotal * 0.1
calculate_costs_tax_typo(material_info, height, width, depth, quantity, finish, led_lighting, mounting_hardware, installation) ==
    LET volume == RMul(RMul(height, width), depth)
        area == RMul(height, width)
        material_cost == RMul(volume, material_info.rate)
        finish_cost == finish_cost_per_letter(material_cost, finish)
        options_cost == options_cost_per_letter(area, volume, led_lighting,
                                                mounting_hardware, installation)
        per_letter_cost == RAdd(material_cost, finish_cost)
        options_total == RMul(options_cost, R(quantity))
        subtotal == RAdd(RMul(per_letter_cost, R(quantity)), options_total)
        tax == RMul(subtotal, Rat(1, 100))
        total == RAdd(subtotal, tax)
    IN  [material_cost |-> RMul(material_cost, R(quantity)),
         finish_cost |-> RMul(finish_cost, R(quantity)),
         options_cost |-> options_total,
         subtotal |-> subtotal,
         tax |-> tax,
         total |-> total]

calculate_costs(material_info, height, width, depth, quantity, finish, led_lighting, mounting_hardware, installation) ==
    LET volume == RMul(RMul(height, width), depth)
        area == RMul(height, width)
        material_cost == RMul(volume, material_info.rate)
        finish_cost == finish_cost_per_letter(material_cost, finish)
        options_cost == options_cost_per_letter(area, volume, led_lighting,
                                                mounting_hardware, installation)
        per_letter_cost == RAdd(material_cost, finish_cost)
        options_total == RMul(options_cost, R(quantity))
        subtotal == RAdd(RMul(per_letter_cost, R(quantity)), options_total)
        tax == RMul(subtotal, Rat(1, 10))
        total == RAdd(subtotal, tax)
    IN  [material_cost |-> RMul(material_cost, R(quantity)),
         finish_cost |-> RMul(finish_cost, R(quantity)),
         options_cost |-> options_total,
         subtotal |-> subtotal,
         tax |-> tax,
         total |-> total]

discount_tiers == << <<100, 5>>, <<250, 10>>, <<500, 15>>, <<1000, 20>> >>

\* the loop with a break after the first tier met
RECURSIVE discount_loop_break(_, _, _)
discount_loop_break(quantity, i, discount_percentage) ==
    IF i > Len(discount_tiers)
    THEN discount_percentage
    ELSE IF quantity >= discount_tiers[i][1]
         THEN discount_tiers[i][2]
         ELSE discount_loop_break(quantity, i + 1, discount_percentage)

\* the loop with the comparison the wrong way round
RECURSIVE discount_loop_flipped(_, _, _)
discount_loop_flipped(quantity, i, discount_percentage) ==
    IF i > Len(discount_tiers)
    THEN discount_percentage
    ELSE discount_loop_flipped(quantity, i + 1,
                               IF quantity <= discount_tiers[i][1]
                               THEN discount_tiers[i][2]
                               ELSE discount_percentage)

\* the for loop over discount_tiers, from tier i on, with the percentage so far
RECURSIVE discount_loop(_, _, _)
discount_loop(quantity, i, discount_percentage) ==
    IF i > Len(discount_tiers)
    THEN discount_percentage
    ELSE discount_loop(quantity, i + 1,
                       IF quantity >= discount_tiers[i][1]
                       THEN discount_tiers[i][2]
                       ELSE discount_percentage)

\* discount = subtotal * discount_percentage, the division by 100 forgotten
calculate_bulk_discount_no_percent(subtotal, quantity) ==
    LET discount_percentage == discount_loop(quantity, 1, 0)
        discount == IF discount_percentage > 0
                    THEN RMul(subtotal, R(discount_percentage))
                    ELSE R(0)
    IN  [discount_percentage |-> discount_percentage,
         discount |-> discount,
         subtotal_after_discount |-> RSub(subtotal, discount)]

calculate_bulk_discount(subtotal, quantity) ==
    LET discount_percentage == discount_loop(quantity, 1, 0)
        discount == IF discount_percentage > 0
                    THEN RMul(subtotal, Rat(discount_percentage, 100))
                    ELSE R(0)
    IN  [discount_percentage |-> discount_percentage,
         discount |-> discount,
         subtotal_after_discount |-> RSub(subtotal, discount)]

\* the volume surcharges as two independent ifs: a volume over 500 gets both
calculate_delivery_time_two_ifs(quantity, volume, led_lighting, installation) ==
    LET base_days == IF quantity <= 5 THEN 3
                     ELSE IF quantity <= 20 THEN 5
                     ELSE IF quantity <= 50 THEN 7
                     ELSE IF quantity <= 100 THEN 10
                     ELSE 14
        d0 == IF RLt(R(500), volume) THEN 2 ELSE 0
        d1 == IF RLt(R(200), volume) THEN d0 + 1 ELSE d0
        d2 == IF led_lighting THEN d1 + 2 ELSE d1
        complexity_days == IF installation THEN d2 + 1 ELSE d2
    IN  base_days + complexity_days

\* more than 100 units given the base days of 21 to 50 units
calculate_delivery_time_dip(quantity, volume, led_lighting, installation) ==
    LET base_days == IF quantity <= 5 THEN 3
                     ELSE IF quantity <= 20 THEN 5
                     ELSE IF quantity <= 50 THEN 7
                     ELSE IF quantity <= 100 THEN 10
                     ELSE 7
        d1 == IF RLt(R(500), volume) THEN 2
              ELSE IF RLt(R(200), volume) THEN 1
              ELSE 0
        d2 == IF led_lighting THEN d1 + 2 ELSE d1
        complexity_days == IF installation THEN d2 + 1 ELSE d2
    IN  base_days + complexity_days

calculate_delivery_time(quantity, volume, led_lighting, installation) ==
    LET base_days == IF quantity <= 5 THEN 3
                     ELSE IF quantity <= 20 THEN 5
                     ELSE IF quantity <= 50 THEN 7
                     ELSE IF quantity <= 100 THEN 10
                     ELSE 14
        d1 == IF RLt(R(500), volume) THEN 2
              ELSE IF RLt(R(200), volume) THEN 1
              ELSE 0
        d2 == IF led_lighting THEN d1 + 2 ELSE d1
        complexity_days == IF installation THEN d2 + 1 ELSE d2
    IN  base_days + complexity_days

(***************************************************************************)
(* config.py: the catalog of finishes and of option rates                  *)
(***************************************************************************)
FINISHES ==
    [Standard |-> [multiplier |-> Rat(100, 100)],
     Painted |-> [multiplier |-> Rat(125, 100)],
     Brushed |-> [multiplier |-> Rat(130, 100)],
     Mirrored |-> [multiplier |-> Rat(140, 100)],
     Polished |-> [multiplier |-> Rat(135, 100)],
     Satin |-> [multiplier |-> Rat(125, 100)],
     Frosted |-> [multiplier |-> Rat(130, 100)],
     Antiqued |-> [multiplier |-> Rat(140, 100)],
     Stained |-> [multiplier |-> Rat(120, 100)],
     Oiled |-> [multiplier |-> Rat(115, 100)],
     Lacquered |-> [multiplier |-> Rat(125, 100)],
     Textured |-> [multiplier |-> Rat(120, 100)]]

OPTIONS ==
    [led_lighting |-> [base_rate |-> R(15), multiplier |-> Rat(12, 10)],
     mounting_hardware |-> [base_rate |-> R(2)],
     installation |-> [base_rate |-> R(5)]]

(***************************************************************************)
(* utils/validation.py                                                     *)
(***************************************************************************)
\* depth checked against the bound of height and width
validate_inputs_depth_120(height, width, depth, letters) ==
    LET dimension_valid ==
            /\ RLt(R(0), height)
            /\ RLt(R(0), width)
            /\ RLt(R(0), depth)
            /\ RLe(height, R(120))
            /\ RLe(width, R(120))
            /\ RLe(depth, R(120))
        letters_valid == strip(letters) # <<>>
    IN  dimension_valid /\ letters_valid

validate_inputs(height, width, depth, letters) ==
    LET dimension_valid ==
            /\ RLt(R(0), height)
            /\ RLt(R(0), width)
            /\ RLt(R(0), depth)
            /\ RLe(height, R(120))
            /\ RLe(width, R(120))
            /\ RLe(depth, R(24))
        letters_valid == strip(letters) # <<>>
    IN  dimension_valid /\ letters_valid

WordChars == {"A", "B", "C"}

AllowedPunct == {".", ",", "!", "?", "@", "#", "$", "%", "^", "&", "*", "(", ")", "-"}

\* the character class [\w\s.,!?@#$%^&*()-]
AllowedChar(c) == c \in WordChars \cup Whitespace \cup AllowedPunct

\* index of the first ">" of s at or after position i, 0 when there is none
RECURSIVE FindClose(_, _)
FindClose(s, i) ==
    IF i > Len(s) THEN 0
    ELSE IF s[i] = ">" THEN i
    ELSE FindClose(s, i + 1)

\* re.sub(r'<[^>]*>', '', text)
RECURSIVE remove_tags(_)
remove_tags(s) ==
    IF s = <<>> THEN <<>>
    ELSE IF Head(s) = "<" /\ FindClose(s, 2) # 0
         THEN remove_tags(SubSeq(s, FindClose(s, 2) + 1, Len(s)))
         ELSE <<Head(s)>> \o remove_tags(Tail(s))

\* re.sub(r'[^\w\s.,!?@#$%^&*()-]', '', sanitized)
RECURSIVE remove_unlisted(_)
remove_unlisted(s) ==
    IF s = <<>> THEN <<>>
    ELSE IF AllowedChar(Head(s))
         THEN <<Head(s)>> \o remove_unlisted(Tail(s))
         ELSE remove_unlisted(Tail(s))

\* the removal of the tags left out
sanitize_text_input_no_tags(text) == strip(remove_unlisted(text))

sanitize_text_input(text) == strip(remove_unlisted(remove_tags(text)))

(***************************************************************************)
(* components/quotation_form.py: the data of render_quotation_form         *)
(***************************************************************************)
material_options ==
    ("Wood" :> [rate |-> Rat(30, 1000)]) @@ ("Acrylic" :> [rate |-> Rat(375, 10000)]) @@
    ("Metal" :> [rate |-> Rat(45, 1000)]) @@ ("Foam" :> [rate |-> Rat(20, 1000)])

color_options ==
    ("Blue" :> "#2b5876") @@ ("Red" :> "#b22222") @@ ("Green" :> "#228b22") @@
    ("Black" :> "#000000") @@ ("White" :> "#ffffff") @@ ("Gold" :> "#ffd700") @@
    ("Silver" :> "#c0c0c0") @@ ("Bronze" :> "#cd7f32") @@ ("Purple" :> "#800080") @@
    ("Orange" :> "#ffa500")

finish_options == <<"Standard", "Painted", "High Gloss", "Matte">>

\* str(i) for the positions of a text of at most max_chars = 20 characters
str(i) ==
    <<"0", "1", "2", "3", "4", "5", "6", "7", "8", "9", "10", "11", "12",
      "13", "14", "15", "16", "17", "18", "19">>[i + 1]

\* dict.update: the keys of d2 are set in d1
update(d1, d2) == d2 @@ d1

(***************************************************************************)
(* Inputs of the model.                                                    *)
(***************************************************************************)
RECURSIVE SeqsUpTo(_, _)
SeqsUpTo(S, n) ==
    IF n = 0 THEN {<<>>}
    ELSE LET shorter == SeqsUpTo(S, n - 1)
         IN  shorter \cup {Append(t, c) : t \in {u \in shorter : Len(u) = n - 1}, c \in S}

\* what a user types into "Enter Letters/Text"
TypedChars == {"A", " ", "<", ">"}
TypedTexts == SeqsUpTo(TypedChars, MaxLetters)

FormFonts == {"helvetiker_bold", "arial"}
FormMaterials == {"Wood"}
FormHeights == {R(12)}              \* number_input: 1.0 .. 120.0
FormWidths == {R(8)}                \* number_input: 1.0 .. 120.0
FormDepths == {R(2)}                \* number_input: 0.5 .. 24.0
FormQuantities == {1, 50, 500}      \* number_input: >= 1
FormFinishes == {"Standard", "Painted"}
FormColors == {"Blue", "Red"}

(***************************************************************************)
(* main.py and components/quotation_display.py: the user store, the        *)
(* persistent login and the login page.  users.json and login_state.json   *)
(* are files of the server, shared by every session; a user name is a      *)
(* string, a password a sequence of characters.                            *)
(***************************************************************************)
Sessions == 1..MaxSessions

\* the session whose quotation form the form variables describe
Session == 1

\* hashlib.sha256(...).hexdigest(): taken as injective
hash_password(password) == [sha256 |-> password]

\* what load_users() returns for the content of users.json
load_users(file) == file

\* register_user after its load_users(): the value returned and the dictionary
\* given to save_users (None when nothing is saved)
register_user(loaded, username, password) ==
    IF username \in DOMAIN loaded
    THEN [ret |-> FALSE, users |-> None]
    ELSE [ret |-> TRUE,
          users |-> update(loaded, [u \in {username} |-> [password |-> hash_password(password)]])]

authenticate_user(file, username, password) ==
    LET loaded == load_users(file)
    IN  /\ username \in DOMAIN loaded
        /\ loaded[username].password = hash_password(password)

\* change_user_password: the value returned and the dictionary saved
change_user_password(file, username, old_password, new_password) ==
    LET loaded == load_users(file)
    IN  IF /\ username \in DOMAIN loaded
           /\ loaded[username].password = hash_password(old_password)
        THEN [ret |-> TRUE,
              users |-> update(loaded, [u \in {username} |->
                                          [password |-> hash_password(new_password)]])]
        ELSE [ret |-> FALSE, users |-> None]

main_ungated(session_state) == "tabs"

\* main(): what a run of the script renders after init_session_state
main(session_state) ==
    IF ~session_state.authenticated THEN "login_signup_form" ELSE "tabs"

\* a session that has not run the script yet
NewSession ==
    [started |-> FALSE, authenticated |-> FALSE, username |-> NoneStr, presented |-> FALSE]

\* no register_user call in flight
NoCall == [pc |-> "idle", users |-> <<>>, username |-> "", password |-> <<>>]

\* the first run of the script in a session: init_session_state
SessionStart(s) ==
    /\ ~sessions[s].started
    /\ LET username == login_state
       IN  IF username # NoneStr
           THEN IF username \in DOMAIN load_users(users)
                THEN /\ sessions' = [sessions EXCEPT ![s].started = TRUE,
                                                     ![s].authenticated = TRUE,
                                                     ![s].username = username]
                     /\ UNCHANGED login_state
                ELSE /\ sessions' = [sessions EXCEPT ![s].started = TRUE,
                                                     ![s].authenticated = FALSE,
                                                     ![s].username = NoneStr]
                     /\ login_state' = NoneStr
           ELSE /\ sessions' = [sessions EXCEPT ![s].started = TRUE,
                                                ![s].authenticated = FALSE]
                /\ UNCHANGED login_state
    /\ UNCHANGED <<users, reg, registered, formvars>>

\* the login page is rendered in session s and its script is not in a call
LoginPage(s) ==
    /\ sessions[s].started
    /\ main(sessions[s]) = "login_signup_form"
    /\ reg[s].pc = "idle"

\* "Login" of login_signup_form
Login(s, login_username, login_password, remember_me) ==
    /\ LoginPage(s)
    /\ IF authenticate_user(users, login_username, login_password)
       THEN /\ sessions' = [sessions EXCEPT ![s].authenticated = TRUE,
                                            ![s].username = login_username,
                                            ![s].presented = TRUE]
            /\ login_state' = IF remember_me THEN login_username ELSE NoneStr
       ELSE UNCHANGED <<sessions, login_state>>
    /\ UNCHANGED <<users, reg, registered, formvars>>

\* "Sign Up" of login_signup_form, up to the load_users() of register_user
SignUp(s, signup_username, signup_password, signup_password2) ==
    /\ LoginPage(s)
    /\ IF signup_username = "" \/ signup_password = <<>>
       THEN UNCHANGED reg
       ELSE IF signup_password # signup_password2
       THEN UNCHANGED reg
       ELSE IF Len(signup_password) < 4
       THEN UNCHANGED reg
       ELSE reg' = [reg EXCEPT ![s] = [pc |-> "loaded",
                                       users |-> load_users(users),
                                       username |-> signup_username,
                                       password |-> signup_password]]
    /\ UNCHANGED <<sessions, users, login_state, registered, formvars>>

\* the rest of register_user in session s: the check, save_users and the return
SignUpReturn(s) ==
    /\ reg[s].pc = "loaded"
    /\ LET r == register_user(reg[s].users, reg[s].username, reg[s].password)
       IN  /\ users' = IF r.ret THEN r.users ELSE users
           /\ registered' = IF r.ret
                            THEN [registered EXCEPT ![reg[s].username] = @ + 1]
                            ELSE registered
    /\ reg' = [reg EXCEPT ![s] = NoCall]
    /\ UNCHANGED <<sessions, login_state, formvars>>

\* the tabs are rendered in session s
TabsPage(s) ==
    /\ sessions[s].started
    /\ main(sessions[s]) = "tabs"
    /\ reg[s].pc = "idle"

\* "Update Password" of render_settings
UpdatePassword(s, old_password, new_password, new_password2) ==
    /\ TabsPage(s)
    /\ IF old_password = <<>> \/ new_password = <<>> \/ new_password2 = <<>>
       THEN UNCHANGED users
       ELSE IF new_password # new_password2
       THEN UNCHANGED users
       ELSE IF Len(new_password) < 4
       THEN UNCHANGED users
       ELSE IF sessions[s].username = NoneStr
       THEN UNCHANGED users
       ELSE LET r == change_user_password(users, sessions[s].username, old_password,
                                          new_password)
            IN  users' = IF r.ret THEN r.users ELSE users
    /\ UNCHANGED <<sessions, login_state, reg, registered, formvars>>

\* "Log Out" of render_settings
LogOut(s) ==
    /\ TabsPage(s)
    /\ sessions' = [sessions EXCEPT ![s].authenticated = FALSE, ![s].username = NoneStr]
    /\ login_state' = NoneStr
    /\ UNCHANGED <<users, reg, registered, formvars>>

\* the names and passwords typed into the login page
Usernames == {"alice", "bob"}
Password == <<"a", "b", "c", "d">>
OtherPassword == <<"w", "x", "y", "z">>
ShortPassword == <<"a", "b", "c">>

\* the store after "alice" signed up
StoreOfAlice == [u \in {"alice"} |-> [password |-> hash_password(Password)]]

\* nobody has opened the application
NoSession ==
    /\ sessions = [s \in Sessions |-> NewSession]
    /\ users = <<>>
    /\ login_state = NoneStr
    /\ reg = [s \in Sessions |-> NoCall]
    /\ registered = [u \in Usernames |-> 0]

\* "alice" signed up and logged in, in the session of the form
LoggedIn ==
    /\ sessions = [s \in Sessions |->
                     IF s = Session
                     THEN [started |-> TRUE, authenticated |-> TRUE,
                           username |-> "alice", presented |-> TRUE]
                     ELSE NewSession]
    /\ users = StoreOfAlice
    /\ login_state = NoneStr
    /\ reg = [s \in Sessions |-> NoCall]
    /\ registered = [u \in Usernames |-> IF u = "alice" THEN 1 ELSE 0]

(***************************************************************************)
(* main.py: init_session_state                                             *)
(***************************************************************************)
init_session_state ==
    /\ current_quote = None
    /\ letter_properties =
         [letters |-> <<"A", "B", "C">>,
          height |-> R(12),
          width |-> R(8),
          depth |-> R(2),
          material |-> "Wood",
          finish |-> "Standard",
          color |-> "Blue",
          quantity |-> 1,
          led_lighting |-> FALSE,
          mounting_hardware |-> FALSE,
          installation |-> FALSE,
          font |-> "default",
          letter_colors |-> <<>>]
    /\ step1_completed = FALSE

Init ==
    /\ init_session_state
    /\ LoggedIn
    /\ current_ref = 0
    /\ quotations = <<>>
    /\ quotation = None
    /\ calls = <<>>
    /\ call = None
    /\ pc = "idle"
    /\ ret = None

(***************************************************************************)
(* components/quotation_form.py: render_quotation_form                     *)
(***************************************************************************)
\* the "quotation_form" form is rendered
Step2Visible(completed, props) ==
    completed /\ strip(Get(props, "letters", <<>>)) # <<>>

\* the selectbox "Color" shows the stored colour until the user picks another
default_color(props) ==
    LET c == Get(props, "color", "Blue")
    IN  IF c \in DOMAIN color_options THEN c ELSE "Blue"

\* an entry too many: one for the position after the last letter
build_letter_colors_extra(letters, selected_color) ==
    LET t == strip(letters)
    IN  [k \in {str(i - 1) : i \in 1..(Len(t) + 1)} |->
            [name |-> selected_color,
             hex |-> color_options[selected_color],
             char |-> t[1]]]

\* letter_colors built from the trimmed letters, keyed by str(position)
build_letter_colors(letters, selected_color) ==
    LET t == strip(letters)
    IN  [k \in {str(i - 1) : i \in 1..Len(t)} |->
            [name |-> selected_color,
             hex |-> color_options[selected_color],
             char |-> t[CHOOSE i \in 1..Len(t) : str(i - 1) = k]]]

\* "Store color info in session state": done by every run that renders step 2
store_color(props, selected_color) ==
    update(props,
           [color |-> selected_color,
            color_hex |-> color_options[selected_color],
            multi_color |-> FALSE,
            letter_colors |-> build_letter_colors(props.letters, selected_color)])

\* a day more for every font but the default one
build_quotation_font_days(letters, font, material, height, width, depth, quantity, finish, led_lighting, mounting_hardware, installation, letter_colors) ==
    LET num_letters == Len(strip(letters))
        costs0 == calculate_costs(material_options[material], height, width, depth,
                                  quantity * num_letters, finish, led_lighting,
                                  mounting_hardware, installation)
        costs == IF quantity * num_letters >= 50
                 THEN update(costs0, calculate_bulk_discount(costs0.subtotal,
                                                             quantity * num_letters))
                 ELSE costs0
        volume == RMul(RMul(height, width), depth)
        delivery_days == calculate_delivery_time(quantity * num_letters, volume,
                                                 led_lighting, installation)
        has_colors == DOMAIN letter_colors # {}
    IN  [letters |-> letters,
         font |-> font,
         material |-> material,
         dimensions |-> <<height, width, depth>>,
         height |-> height,
         width |-> width,
         depth |-> depth,
         quantity |-> quantity,
         total_letters |-> num_letters * quantity,
         finish |-> finish,
         volume_per_letter |-> volume,
         estimated_delivery_days |-> delivery_days + (IF font = "default" THEN 0 ELSE 1),
         options |-> ("LED Lighting" :> led_lighting)
                     @@ ("Mounting Hardware" :> mounting_hardware)
                     @@ ("Installation" :> installation),
         costs |-> costs,
         led_lighting |-> led_lighting,
         mounting_hardware |-> mounting_hardware,
         installation |-> installation,
         letter_colors |-> letter_colors,
         multi_color |-> FALSE,
         color |-> IF has_colors THEN letter_colors["0"].name ELSE "Blue",
         color_hex |-> IF has_colors THEN letter_colors["0"].hex ELSE "#2b5876"]

\* the quotation dictionary built by a valid "Calculate Quote" submission
build_quotation(letters, font, material, height, width, depth, quantity, finish, led_lighting, mounting_hardware, installation, letter_colors) ==
    LET num_letters == Len(strip(letters))
        costs0 == calculate_costs(material_options[material], height, width, depth,
                                  quantity * num_letters, finish, led_lighting,
                                  mounting_hardware, installation)
        costs == IF quantity * num_letters >= 50
                 THEN update(costs0, calculate_bulk_discount(costs0.subtotal,
                                                             quantity * num_letters))
                 ELSE costs0
        volume == RMul(RMul(height, width), depth)
        delivery_days == calculate_delivery_time(quantity * num_letters, volume,
                                                 led_lighting, installation)
        has_colors == DOMAIN letter_colors # {}
    IN  [letters |-> letters,
         font |-> font,
         material |-> material,
         dimensions |-> <<height, width, depth>>,
         height |-> height,
         width |-> width,
         depth |-> depth,
         quantity |-> quantity,
         total_letters |-> num_letters * quantity,
         finish |-> finish,
         volume_per_letter |-> volume,
         estimated_delivery_days |-> delivery_days,
         options |-> ("LED Lighting" :> led_lighting)
                     @@ ("Mounting Hardware" :> mounting_hardware)
                     @@ ("Installation" :> installation),
         costs |-> costs,
         led_lighting |-> led_lighting,
         mounting_hardware |-> mounting_hardware,
         installation |-> installation,
         letter_colors |-> letter_colors,
         multi_color |-> FALSE,
         color |-> IF has_colors THEN letter_colors["0"].name ELSE "Blue",
         color_hex |-> IF has_colors THEN letter_colors["0"].hex ELSE "#2b5876"]

\* calculate_costs called before the validation of the submission
submission_calls_costs_first(letters, material, height, width, depth, quantity, finish, led_lighting, mounting_hardware, installation) ==
    LET units == quantity * Len(strip(letters))
        valid == validate_inputs(height, width, depth, letters)
        volume == RMul(RMul(height, width), depth)
        costs == calculate_costs(material_options[material], height, width, depth,
                                 units, finish, led_lighting, mounting_hardware,
                                 installation)
        Validate == [fn |-> "validate_inputs",
                     args |-> [height |-> height, width |-> width, depth |-> depth,
                               letters |-> letters],
                     ret |-> valid]
        Costs == [fn |-> "calculate_costs",
                  args |-> [material_info |-> material_options[material],
                            height |-> height, width |-> width, depth |-> depth,
                            quantity |-> units, finish |-> finish,
                            led_lighting |-> led_lighting,
                            mounting_hardware |-> mounting_hardware,
                            installation |-> installation],
                  ret |-> costs]
        Discount == [fn |-> "calculate_bulk_discount",
                     args |-> [subtotal |-> costs.subtotal, quantity |-> units],
                     ret |-> calculate_bulk_discount(costs.subtotal, units)]
        Delivery == [fn |-> "calculate_delivery_time",
                     args |-> [quantity |-> units, volume |-> volume,
                               led_lighting |-> led_lighting,
                               installation |-> installation],
                     ret |-> calculate_delivery_time(units, volume, led_lighting,
                                                     installation)]
        estimate == IF strip(letters) = <<>> THEN <<>>
                    ELSE IF valid THEN <<Validate, Costs>>
                    ELSE <<Validate>>
        handler == <<Costs, Validate>>
                   \o (IF units >= 50 THEN <<Discount>> ELSE <<>>)
                   \o <<Delivery>>
    IN  estimate \o handler

\* the number of sets, not of letters, given to calculate_delivery_time
submission_calls_delivery_sets(letters, material, height, width, depth, quantity, finish, led_lighting, mounting_hardware, installation) ==
    LET units == quantity * Len(strip(letters))
        valid == validate_inputs(height, width, depth, letters)
        volume == RMul(RMul(height, width), depth)
        costs == calculate_costs(material_options[material], height, width, depth,
                                 units, finish, led_lighting, mounting_hardware,
                                 installation)
        Validate == [fn |-> "validate_inputs",
                     args |-> [height |-> height, width |-> width, depth |-> depth,
                               letters |-> letters],
                     ret |-> valid]
        Costs == [fn |-> "calculate_costs",
                  args |-> [material_info |-> material_options[material],
                            height |-> height, width |-> width, depth |-> depth,
                            quantity |-> units, finish |-> finish,
                            led_lighting |-> led_lighting,
                            mounting_hardware |-> mounting_hardware,
                            installation |-> installation],
                  ret |-> costs]
        Discount == [fn |-> "calculate_bulk_discount",
                     args |-> [subtotal |-> costs.subtotal, quantity |-> units],
                     ret |-> calculate_bulk_discount(costs.subtotal, units)]
        Delivery == [fn |-> "calculate_delivery_time",
                     args |-> [quantity |-> quantity, volume |-> volume,
                               led_lighting |-> led_lighting,
                               installation |-> installation],
                     ret |-> calculate_delivery_time(quantity, volume, led_lighting,
                                                     installation)]
        estimate == IF strip(letters) = <<>> THEN <<>>
                    ELSE IF valid THEN <<Validate, Costs>>
                    ELSE <<Validate>>
        handler == IF valid
                   THEN <<Validate, Costs>>
                        \o (IF units >= 50 THEN <<Discount>> ELSE <<>>)
                        \o <<Delivery>>
                   ELSE <<Validate>>
    IN  estimate \o handler

\* the calls a run makes when "Calculate Quote" was pressed: those of the live
\* estimate of the form, then those of the handler of the submission
submission_calls(letters, material, height, width, depth, quantity, finish, led_lighting, mounting_hardware, installation) ==
    LET units == quantity * Len(strip(letters))
        valid == validate_inputs(height, width, depth, letters)
        volume == RMul(RMul(height, width), depth)
        costs == calculate_costs(material_options[material], height, width, depth,
                                 units, finish, led_lighting, mounting_hardware,
                                 installation)
        Validate == [fn |-> "validate_inputs",
                     args |-> [height |-> height, width |-> width, depth |-> depth,
                               letters |-> letters],
                     ret |-> valid]
        Costs == [fn |-> "calculate_costs",
                  args |-> [material_info |-> material_options[material],
                            height |-> height, width |-> width, depth |-> depth,
                            quantity |-> units, finish |-> finish,
                            led_lighting |-> led_lighting,
                            mounting_hardware |-> mounting_hardware,
                            installation |-> installation],
                  ret |-> costs]
        Discount == [fn |-> "calculate_bulk_discount",
                     args |-> [subtotal |-> costs.subtotal, quantity |-> units],
                     ret |-> calculate_bulk_discount(costs.subtotal, units)]
        Delivery == [fn |-> "calculate_delivery_time",
                     args |-> [quantity |-> units, volume |-> volume,
                               led_lighting |-> led_lighting,
                               installation |-> installation],
                     ret |-> calculate_delivery_time(units, volume, led_lighting,
                                                     installation)]
        estimate == IF strip(letters) = <<>> THEN <<>>
                    ELSE IF valid THEN <<Validate, Costs>>
                    ELSE <<Validate>>
        handler == IF valid
                   THEN <<Validate, Costs>>
                        \o (IF units >= 50 THEN <<Discount>> ELSE <<>>)
                        \o <<Delivery>>
                   ELSE <<Validate>>
    IN  estimate \o handler

\* the dictionary a submission builds is a new object: it is none of the saved ones
new_ref ==
    CHOOSE n \in 1..(Len(quotations) + 1) :
        /\ \A i \in 1..Len(quotations) : quotations[i].ref # n
        /\ \A m \in 1..(n - 1) : \E i \in 1..Len(quotations) : quotations[i].ref = m

\* "Next: Choose Options" of the letters_font_form
Step1Submit(typed, font) ==
    LET letters == sanitize_text_input(typed)
        props1 == update(letter_properties, [letters |-> letters, font |-> font])
    IN  /\ TabsPage(Session)
        /\ step1_completed' = TRUE
        /\ current_quote' = None
        /\ current_ref' = 0
        /\ letter_properties' =
             IF Step2Visible(TRUE, props1)
             THEN store_color(props1, default_color(props1))
             ELSE props1
        /\ calls' = <<>>
        /\ UNCHANGED <<quotations, quotation, call, pc, ret, authvars>>

\* "Calculate Quote" of the quotation_form
CalculateQuote(material, height, width, depth, quantity, finish, selected_color, led_lighting, mounting_hardware, installation) ==
    /\ TabsPage(Session)
    /\ Step2Visible(step1_completed, letter_properties)
    /\ LET letters == letter_properties.letters
           font == letter_properties.font
           props1 == store_color(letter_properties, selected_color)
           props2 == update(props1,
                            [material |-> material,
                             height |-> height,
                             width |-> width,
                             depth |-> depth,
                             quantity |-> quantity,
                             finish |-> finish,
                             led_lighting |-> led_lighting,
                             mounting_hardware |-> mounting_hardware,
                             installation |-> installation])
       IN  /\ letter_properties' = props2
           /\ current_quote' =
                IF validate_inputs(height, width, depth, letters)
                THEN build_quotation(letters, font, material, height, width, depth,
                                     quantity, finish, led_lighting, mounting_hardware,
                                     installation, props1.letter_colors)
                ELSE current_quote
           /\ current_ref' =
                IF validate_inputs(height, width, depth, letters)
                THEN new_ref
                ELSE current_ref
           /\ calls' = submission_calls(letters, material, height, width, depth,
                                        quantity, finish, led_lighting,
                                        mounting_hardware, installation)
    /\ UNCHANGED <<step1_completed, quotations, quotation, call, pc, ret, authvars>>

\* "Clear Form" of the quotation_form
ClearForm ==
    /\ TabsPage(Session)
    /\ Step2Visible(step1_completed, letter_properties)
    /\ letter_properties' =
         [letters |-> <<"L", "O", "G", "O">>,
          font |-> "helvetiker_bold",
          material |-> "Acrylic",
          height |-> R(12),
          width |-> R(8),
          depth |-> R(2),
          quantity |-> 1,
          finish |-> "Standard",
          color |-> "Blue",
          color_hex |-> "#2b5876",
          multi_color |-> FALSE,
          letter_colors |-> <<>>,
          led_lighting |-> FALSE,
          mounting_hardware |-> FALSE,
          installation |-> FALSE]
    /\ step1_completed' = FALSE
    /\ current_quote' = None
    /\ current_ref' = 0
    /\ calls' = <<>>
    /\ UNCHANGED <<quotations, quotation, call, pc, ret, authvars>>

\* "Update 3D Preview" of the quotation_form
UpdatePreview(selected_color) ==
    /\ TabsPage(Session)
    /\ Step2Visible(step1_completed, letter_properties)
    /\ letter_properties' = store_color(letter_properties, selected_color)
    /\ UNCHANGED <<step1_completed, current_quote, current_ref, quotations, quotation,
                   calls, call, pc, ret, authvars>>

Next ==
    \/ \E typed \in TypedTexts, font \in FormFonts : Step1Submit(typed, font)
    \/ \E material \in FormMaterials, height \in FormHeights, width \in FormWidths,
          depth \in FormDepths, quantity \in FormQuantities, finish \in FormFinishes,
          selected_color \in FormColors, led_lighting \in BOOLEAN,
          mounting_hardware \in BOOLEAN, installation \in BOOLEAN :
            CalculateQuote(material, height, width, depth, quantity, finish,
                           selected_color, led_lighting, mounting_hardware,
                           installation)
    \/ ClearForm
    \/ \E selected_color \in FormColors : UpdatePreview(selected_color)

Spec == Init /\ [][Next]_vars

\* "Save Quotation": the list receives the object current_quote refers to
SaveQuotation ==
    /\ TabsPage(Session)
    /\ current_quote # None
    /\ Len(quotations) < MaxSaved
    /\ quotations' = Append(quotations, [ref |-> current_ref, quote |-> current_quote])
    /\ UNCHANGED <<letter_properties, step1_completed, current_quote, current_ref,
                   quotation, calls, call, pc, ret, authvars>>

\* the form with its quotes saved, on fewer inputs
SaveQuantities == {1, 50}

NextSave ==
    \/ Step1Submit(<<"A">>, "arial")
    \/ \E quantity \in SaveQuantities, led_lighting \in BOOLEAN :
          CalculateQuote("Wood", R(12), R(8), R(2), quantity, "Standard", "Blue",
                         led_lighting, FALSE, FALSE)
    \/ SaveQuotation
    \/ ClearForm
    \/ UpdatePreview("Red")

SaveSpec == Init /\ [][NextSave]_vars

\* the form given numbers inside and outside the ranges of its number inputs,
\* as a client that does not keep to min_value and max_value can send them
SubmitHeights == {R(12), Rat(12001, 100)}
SubmitDepths == {R(2), R(0)}

NextSubmit ==
    \/ \E typed \in {<<"A">>, <<"A", "A">>} : Step1Submit(typed, "arial")
    \/ \E height \in SubmitHeights, depth \in SubmitDepths, quantity \in SaveQuantities,
          selected_color \in FormColors, led_lighting \in BOOLEAN :
            CalculateQuote("Wood", height, R(8), depth, quantity, "Standard",
                           selected_color, led_lighting, FALSE, FALSE)
    \/ ClearForm
    \/ \E selected_color \in FormColors : UpdatePreview(selected_color)

SubmitSpec == Init /\ [][NextSubmit]_vars

(***************************************************************************)
(* The login page in front of the form: sessions open the application,     *)
(* sign up, log in, change a password and log out; the form belongs to     *)
(* session 1.                                                              *)
(***************************************************************************)
InitAuth ==
    /\ init_session_state
    /\ NoSession
    /\ current_ref = 0
    /\ quotations = <<>>
    /\ quotation = None
    /\ calls = <<>>
    /\ call = None
    /\ pc = "idle"
    /\ ret = None

AuthUsernames == {"alice"}
SignUpPasswords == {Password, ShortPassword}
LoginPasswords == {Password, OtherPassword}

NextAuth ==
    \/ \E s \in Sessions : SessionStart(s)
    \/ \E s \in Sessions, login_username \in AuthUsernames,
          login_password \in LoginPasswords, remember_me \in BOOLEAN :
            Login(s, login_username, login_password, remember_me)
    \/ \E s \in Sessions, signup_username \in AuthUsernames,
          signup_password \in SignUpPasswords, signup_password2 \in SignUpPasswords :
            SignUp(s, signup_username, signup_password, signup_password2)
    \/ \E s \in Sessions : SignUpReturn(s)
    \/ \E s \in Sessions, old_password \in LoginPasswords, new_password \in LoginPasswords :
            UpdatePassword(s, old_password, new_password, new_password)
    \/ \E s \in Sessions : LogOut(s)
    \/ Step1Submit(<<"A">>, "arial")
    \/ CalculateQuote("Wood", R(12), R(8), R(2), 1, "Standard", "Blue", FALSE, FALSE, FALSE)
    \/ SaveQuotation
    \/ ClearForm

AuthSpec == InitAuth /\ [][NextAuth]_vars

(***************************************************************************)
(* Sign-ups from concurrent sessions: each session's script runs in its    *)
(* own thread, and register_user reads users.json and writes it back       *)
(* without a lock.                                                         *)
(***************************************************************************)
NextReg ==
    \/ \E s \in Sessions : SessionStart(s)
    \/ \E s \in Sessions, signup_username \in Usernames :
            SignUp(s, signup_username, Password, Password)
    \/ \E s \in Sessions : SignUpReturn(s)

RegSpec == InitAuth /\ [][NextReg]_vars

(***************************************************************************)
(* models/quotation.py.  A datetime is a count of seconds; an instance of  *)
(* a data class is a record of its fields, a ColorInfo carrying its class  *)
(* so that it differs from the dictionary with the same keys.              *)
(***************************************************************************)
\* datetime.isoformat()
isoformat(t) == <<"isoformat", t>>

\* datetime.strftime("%Y%m%d%H%M%S")
strftime(t) == <<"%Y%m%d%H%M%S", t>>

ColorInfo(name, hex) == [class |-> "ColorInfo", name |-> name, hex |-> hex]

\* isinstance(v, dict)
isdict(v) == "class" \notin DOMAIN v

QuotationOptions(led_lighting, mounting_hardware, installation) ==
    [led_lighting |-> led_lighting,
     mounting_hardware |-> mounting_hardware,
     installation |-> installation]

QuotationCosts(material_cost, finish_cost, options_cost, subtotal, tax, total, discount, discount_percentage) ==
    [material_cost |-> material_cost,
     finish_cost |-> finish_cost,
     options_cost |-> options_cost,
     subtotal |-> subtotal,
     tax |-> tax,
     total |-> total,
     discount |-> discount,
     discount_percentage |-> discount_percentage]

\* Quotation.estimated_delivery_date
estimated_delivery_date(self) ==
    self.created_at + self.estimated_delivery_days * 86400

\* the letter colours read back by from_dict
from_dict_letter_colors(data) ==
    IF Get(data, "multi_color", FALSE) /\ "letter_colors" \in DOMAIN data
    THEN [letter \in {l \in DOMAIN data.letter_colors :
                        /\ isdict(data.letter_colors[l])
                        /\ "name" \in DOMAIN data.letter_colors[l]
                        /\ "hex" \in DOMAIN data.letter_colors[l]} |->
             ColorInfo(data.letter_colors[letter].name, data.letter_colors[letter].hex)]
    ELSE <<>>

\* costs_data.get('discount') without its default
from_dict_costs_no_default(costs_data) ==
    QuotationCosts(Get(costs_data, "material_cost", R(0)),
                   Get(costs_data, "finish_cost", R(0)),
                   Get(costs_data, "options_cost", R(0)),
                   Get(costs_data, "subtotal", R(0)),
                   Get(costs_data, "tax", R(0)),
                   Get(costs_data, "total", R(0)),
                   Get(costs_data, "discount", None),
                   Get(costs_data, "discount_percentage", 0))

\* the QuotationCosts read back by from_dict
from_dict_costs(costs_data) ==
    QuotationCosts(Get(costs_data, "material_cost", R(0)),
                   Get(costs_data, "finish_cost", R(0)),
                   Get(costs_data, "options_cost", R(0)),
                   Get(costs_data, "subtotal", R(0)),
                   Get(costs_data, "tax", R(0)),
                   Get(costs_data, "total", R(0)),
                   Get(costs_data, "discount", R(0)),
                   Get(costs_data, "discount_percentage", 0))

\* Quotation.from_dict, called when the clock reads now
from_dict(data, now) ==
    LET costs_data == Get(data, "costs", <<>>)
        options_data == Get(data, "options", <<>>)
    IN  [letters |-> Get(data, "letters", <<>>),
         material |-> Get(data, "material", ""),
         dimensions |-> Get(data, "dimensions", ""),
         quantity |-> Get(data, "quantity", 0),
         total_letters |-> Get(data, "total_letters", 0),
         finish |-> Get(data, "finish", ""),
         volume_per_letter |-> Get(data, "volume_per_letter", R(0)),
         options |-> QuotationOptions(Get(options_data, "LED Lighting", FALSE),
                                      Get(options_data, "Mounting Hardware", FALSE),
                                      Get(options_data, "Installation", FALSE)),
         costs |-> from_dict_costs(costs_data),
         multi_color |-> Get(data, "multi_color", FALSE),
         color |-> Get(data, "color", NoneStr),
         color_hex |-> Get(data, "color_hex", NoneStr),
         letter_colors |-> from_dict_letter_colors(data),
         font |-> Get(data, "font", "default"),
         estimated_delivery_days |-> Get(data, "estimated_delivery_days", 7),
         created_at |-> now,
         quote_id |-> strftime(now)]

\* Quotation.to_dict
to_dict(self) ==
    LET result ==
          [letters |-> self.letters,
           material |-> self.material,
           dimensions |-> self.dimensions,
           quantity |-> self.quantity,
           total_letters |-> self.total_letters,
           finish |-> self.finish,
           volume_per_letter |-> self.volume_per_letter,
           options |-> ("LED Lighting" :> self.options.led_lighting)
                       @@ ("Mounting Hardware" :> self.options.mounting_hardware)
                       @@ ("Installation" :> self.options.installation),
           costs |-> [material_cost |-> self.costs.material_cost,
                      finish_cost |-> self.costs.finish_cost,
                      options_cost |-> self.costs.options_cost,
                      subtotal |-> self.costs.subtotal,
                      tax |-> self.costs.tax,
                      total |-> self.costs.total,
                      discount |-> self.costs.discount,
                      discount_percentage |-> self.costs.discount_percentage],
           multi_color |-> self.multi_color,
           color |-> self.color,
           color_hex |-> self.color_hex,
           font |-> self.font,
           estimated_delivery_days |-> self.estimated_delivery_days,
           created_at |-> isoformat(self.created_at),
           quote_id |-> self.quote_id]
    IN  IF self.multi_color
        THEN update(result,
                    [letter_colors |->
                        [letter \in DOMAIN self.letter_colors |->
                            [name |-> self.letter_colors[letter].name,
                             hex |-> self.letter_colors[letter].hex]]])
        ELSE result

\* Quotation.calculate_estimated_delivery_days
calculate_estimated_delivery_days(self) ==
    LET base_days1 == IF self.quantity > 10 THEN 5 + 2
                      ELSE IF self.quantity > 5 THEN 5 + 1
                      ELSE 5
        base_days2 == IF self.options.led_lighting THEN base_days1 + 2 ELSE base_days1
        base_days3 == IF self.options.installation THEN base_days2 + 1 ELSE base_days2
    IN  IF self.multi_color
        THEN base_days3 + (Cardinality(DOMAIN self.letter_colors) \div 2)
        ELSE base_days3

\* the discounted subtotal written over costs.subtotal as well
apply_bulk_discount_subtotal(self) ==
    LET discount_percentage ==
          IF self.quantity >= 10 \/ self.total_letters >= 100 THEN 10
          ELSE IF self.quantity >= 5 \/ self.total_letters >= 50 THEN 5
          ELSE 0
        discount_amount == RMul(self.costs.subtotal, Rat(discount_percentage, 100))
        discounted_subtotal == RSub(self.costs.subtotal, discount_amount)
        tax == RMul(discounted_subtotal, Rat(1, 10))
    IN  IF discount_percentage > 0
        THEN [self EXCEPT !.costs.discount = discount_amount,
                          !.costs.discount_percentage = discount_percentage,
                          !.costs.subtotal = discounted_subtotal,
                          !.costs.tax = tax,
                          !.costs.total = RAdd(discounted_subtotal, tax)]
        ELSE self

\* both thresholds of a tier required instead of either
apply_bulk_discount_both(self) ==
    LET discount_percentage ==
          IF self.quantity >= 10 /\ self.total_letters >= 100 THEN 10
          ELSE IF self.quantity >= 5 /\ self.total_letters >= 50 THEN 5
          ELSE 0
        discount_amount == RMul(self.costs.subtotal, Rat(discount_percentage, 100))
        discounted_subtotal == RSub(self.costs.subtotal, discount_amount)
        tax == RMul(discounted_subtotal, Rat(1, 10))
    IN  IF discount_percentage > 0
        THEN [self EXCEPT !.costs.discount = discount_amount,
                          !.costs.discount_percentage = discount_percentage,
                          !.costs.tax = tax,
                          !.costs.total = RAdd(discounted_subtotal, tax)]
        ELSE self

\* Quotation.apply_bulk_discount: the object after the call
apply_bulk_discount(self) ==
    LET discount_percentage ==
          IF self.quantity >= 10 \/ self.total_letters >= 100 THEN 10
          ELSE IF self.quantity >= 5 \/ self.total_letters >= 50 THEN 5
          ELSE 0
        discount_amount == RMul(self.costs.subtotal, Rat(discount_percentage, 100))
        discounted_subtotal == RSub(self.costs.subtotal, discount_amount)
        tax == RMul(discounted_subtotal, Rat(1, 10))
    IN  IF discount_percentage > 0
        THEN [self EXCEPT !.costs.discount = discount_amount,
                          !.costs.discount_percentage = discount_percentage,
                          !.costs.tax = tax,
                          !.costs.total = RAdd(discounted_subtotal, tax)]
        ELSE self


(***************************************************************************)
(* The functions of utils/ called on their own: the arguments are drawn    *)
(* in the initial state and one action applies the function.               *)
(***************************************************************************)
CostRates == {material_options[m].rate : m \in DOMAIN material_options}
CostHeights == {R(-1), R(0), Rat(1, 2), R(12)}
CostWidths == {R(0), R(1), R(8)}
CostDepths == {R(-1), R(0), Rat(1, 2), R(2)}
CostUnits == {1, 3, 100}
CostFinishes == {"Standard", "Painted", "High Gloss", "Matte", "Mirrored"}

CostCalls ==
    [fn : {"calculate_costs"},
     material_info : [rate : CostRates],
     height : CostHeights, width : CostWidths, depth : CostDepths,
     quantity : CostUnits, finish : CostFinishes,
     led_lighting : BOOLEAN, mounting_hardware : BOOLEAN, installation : BOOLEAN]

DiscountSubtotals == {R(0), R(1000), Rat(1728, 100)}

DiscountCalls ==
    [fn : {"calculate_bulk_discount"},
     subtotal : DiscountSubtotals,
     quantity : 0..MaxUnits]

ValidateHeights == {R(-1), R(0), Rat(1, 2), R(120), Rat(12001, 100)}
ValidateWidths == {R(0), R(8), R(120), Rat(12001, 100)}
ValidateDepths == {R(-1), R(0), Rat(1, 2), R(24), Rat(2401, 100), R(120)}
ValidateTexts == SeqsUpTo({"A", " ", "\t"}, MaxLen)

ValidateCalls ==
    [fn : {"validate_inputs"},
     height : ValidateHeights, width : ValidateWidths, depth : ValidateDepths,
     letters : ValidateTexts]

DeliveryVolumes == {R(0), R(200), Rat(2001, 10), R(500), Rat(5001, 10), R(600)}

DeliveryCalls ==
    [fn : {"calculate_delivery_time"},
     quantity : 0..MaxDeliveryUnits,
     volume : DeliveryVolumes,
     led_lighting : BOOLEAN, installation : BOOLEAN]

SanitizeChars == {"A", "B", " ", "<", ">", "~", "-"}

SanitizeCalls ==
    [fn : {"sanitize_text_input"},
     text : SeqsUpTo(SanitizeChars, MaxLen)]

\* constructed Quotation objects
QuotationLetterColors ==
    {<<>>,
     ("0" :> ColorInfo("Blue", "#2b5876")),
     ("0" :> ColorInfo("Blue", "#2b5876")) @@ ("1" :> ColorInfo("Red", "#b22222"))}

QuotationCostsObjects ==
    {QuotationCosts(Rat(1728, 100), R(0), R(0), Rat(1728, 100), Rat(1728, 1000),
                    Rat(19008, 1000), R(0), 0),
     QuotationCosts(Rat(1728, 100), R(0), R(0), Rat(1728, 100), Rat(1728, 1000),
                    Rat(19008, 1000), Rat(864, 1000), 5)}

QuotationObjects ==
    {[letters |-> <<"A", "B">>,
      material |-> "Wood",
      dimensions |-> "12x8x2",
      quantity |-> quantity,
      total_letters |-> total_letters,
      finish |-> "Standard",
      volume_per_letter |-> R(192),
      options |-> QuotationOptions(led_lighting, FALSE, installation),
      costs |-> costs,
      multi_color |-> multi_color,
      color |-> color[1],
      color_hex |-> color[2],
      letter_colors |-> letter_colors,
      font |-> font,
      estimated_delivery_days |-> days,
      created_at |-> created_at,
      quote_id |-> strftime(created_at)] :
        quantity \in {1, 4, 5, 9, 10}, total_letters \in {2, 49, 50, 99, 100},
        led_lighting \in BOOLEAN, installation \in BOOLEAN,
        costs \in QuotationCostsObjects, multi_color \in BOOLEAN,
        color \in {<<NoneStr, NoneStr>>, <<"Blue", "#2b5876">>},
        letter_colors \in QuotationLetterColors,
        font \in {"default", "arial"}, days \in {7, 9},
        created_at \in 0..MaxClock}

\* q.to_dict() handed to Quotation.from_dict at or after the construction of q
RoundTripCalls ==
    {c \in [fn : {"from_dict_to_dict"},
            q : {o \in QuotationObjects : /\ o.quantity = 1
                                          /\ o.total_letters = 2
                                          /\ ~o.options.led_lighting
                                          /\ ~o.options.installation},
            now : 0..MaxClock] :
        c.now >= c.q.created_at}

\* portable forms: a to_dict() result with some of its keys left out
OptionalKeys ==
    {"costs", "options", "font", "estimated_delivery_days", "multi_color",
     "color", "letter_colors"}

OptionalCostKeys == {"discount", "discount_percentage"}

Without(d, keys) == [k \in DOMAIN d \ keys |-> d[k]]

PortableForms ==
    {IF "costs" \in DOMAIN Without(to_dict(q), keys)
     THEN [Without(to_dict(q), keys) EXCEPT !.costs = Without(@, cost_keys)]
     ELSE Without(to_dict(q), keys) :
        q \in {o \in QuotationObjects :
                  /\ o.quantity = 1 /\ o.total_letters = 2
                  /\ o.options.led_lighting /\ o.options.installation
                  /\ o.costs.discount_percentage = 5
                  /\ o.font = "arial" /\ o.created_at = 0
                  /\ o.estimated_delivery_days = 9
                  /\ Cardinality(DOMAIN o.letter_colors) = 2},
        keys \in SUBSET OptionalKeys,
        cost_keys \in SUBSET OptionalCostKeys} \cup {<<>>}

FromDictCalls ==
    [fn : {"from_dict"}, data : PortableForms, now : 0..MaxClock]

InitFn ==
    /\ init_session_state
    /\ LoggedIn
    /\ current_ref = 0
    /\ quotations = <<>>
    /\ quotation = None
    /\ calls = <<>>
    /\ call \in CostCalls \cup DiscountCalls \cup ValidateCalls \cup DeliveryCalls
               \cup SanitizeCalls \cup RoundTripCalls \cup FromDictCalls
    /\ pc = "ready"
    /\ ret = None

Call_calculate_costs ==
    /\ pc = "ready"
    /\ call.fn = "calculate_costs"
    /\ ret' = calculate_costs(call.material_info, call.height, call.width, call.depth,
                              call.quantity, call.finish, call.led_lighting,
                              call.mounting_hardware, call.installation)
    /\ pc' = "done"
    /\ UNCHANGED <<letter_properties, step1_completed, current_quote, current_ref,
                   quotations, quotation, calls, call, authvars>>

Call_calculate_bulk_discount ==
    /\ pc = "ready"
    /\ call.fn = "calculate_bulk_discount"
    /\ ret' = calculate_bulk_discount(call.subtotal, call.quantity)
    /\ pc' = "done"
    /\ UNCHANGED <<letter_properties, step1_completed, current_quote, current_ref,
                   quotations, quotation, calls, call, authvars>>

Call_validate_inputs ==
    /\ pc = "ready"
    /\ call.fn = "validate_inputs"
    /\ ret' = validate_inputs(call.height, call.width, call.depth, call.letters)
    /\ pc' = "done"
    /\ UNCHANGED <<letter_properties, step1_completed, current_quote, current_ref,
                   quotations, quotation, calls, call, authvars>>

Call_calculate_delivery_time ==
    /\ pc = "ready"
    /\ call.fn = "calculate_delivery_time"
    /\ ret' = calculate_delivery_time(call.quantity, call.volume, call.led_lighting,
                                      call.installation)
    /\ pc' = "done"
    /\ UNCHANGED <<letter_properties, step1_completed, current_quote, current_ref,
                   quotations, quotation, calls, call, authvars>>

Call_sanitize_text_input ==
    /\ pc = "ready"
    /\ call.fn = "sanitize_text_input"
    /\ ret' = sanitize_text_input(call.text)
    /\ pc' = "done"
    /\ UNCHANGED <<letter_properties, step1_completed, current_quote, current_ref,
                   quotations, quotation, calls, call, authvars>>

Call_from_dict ==
    /\ pc = "ready"
    /\ call.fn = "from_dict"
    /\ ret' = from_dict(call.data, call.now)
    /\ pc' = "done"
    /\ UNCHANGED <<letter_properties, step1_completed, current_quote, current_ref,
                   quotations, quotation, calls, call, authvars>>

Call_from_dict_to_dict ==
    /\ pc = "ready"
    /\ call.fn = "from_dict_to_dict"
    /\ ret' = from_dict(to_dict(call.q), call.now)
    /\ pc' = "done"
    /\ UNCHANGED <<letter_properties, step1_completed, current_quote, current_ref,
                   quotations, quotation, calls, call, authvars>>

NextFn ==
    \/ Call_from_dict
    \/ Call_from_dict_to_dict
    \/ Call_sanitize_text_input
    \/ Call_calculate_delivery_time
    \/ Call_calculate_costs
    \/ Call_calculate_bulk_discount
    \/ Call_validate_inputs

FnSpec == InitFn /\ [][NextFn]_vars

Returned(fn) == pc = "done" /\ call.fn = fn

(***************************************************************************)
(* A Quotation instance and the methods called on it, in any order; call.q *)
(* keeps the fields the instance was constructed with.                     *)
(***************************************************************************)
InitObj ==
    /\ init_session_state
    /\ LoggedIn
    /\ current_ref = 0
    /\ quotations = <<>>
    /\ quotation \in QuotationObjects
    /\ calls = <<>>
    /\ call = [fn |-> "Quotation", q |-> quotation]
    /\ pc = "constructed"
    /\ ret = None

Quotation_to_dict ==
    /\ quotation # None
    /\ ret' = to_dict(quotation)
    /\ pc' = "to_dict"
    /\ UNCHANGED <<letter_properties, step1_completed, current_quote, current_ref,
                   quotations, quotation, calls, call, authvars>>

Quotation_calculate_estimated_delivery_days ==
    /\ quotation # None
    /\ ret' = calculate_estimated_delivery_days(quotation)
    /\ pc' = "calculate_estimated_delivery_days"
    /\ UNCHANGED <<letter_properties, step1_completed, current_quote, current_ref,
                   quotations, quotation, calls, call, authvars>>

Quotation_apply_bulk_discount ==
    /\ quotation # None
    /\ quotation' = apply_bulk_discount(quotation)
    /\ ret' = None
    /\ pc' = "apply_bulk_discount"
    /\ UNCHANGED <<letter_properties, step1_completed, current_quote, current_ref,
                   quotations, calls, call, authvars>>

Quotation_estimated_delivery_date ==
    /\ quotation # None
    /\ ret' = estimated_delivery_date(quotation)
    /\ pc' = "estimated_delivery_date"
    /\ UNCHANGED <<letter_properties, step1_completed, current_quote, current_ref,
                   quotations, quotation, calls, call, authvars>>

NextObj ==
    \/ Quotation_to_dict
    \/ Quotation_calculate_estimated_delivery_days
    \/ Quotation_apply_bulk_discount
    \/ Quotation_estimated_delivery_date

ObjSpec == InitObj /\ [][NextObj]_vars

(***************************************************************************)
(* Properties.                                                             *)
(***************************************************************************)
RSum3(a, b, c) == RAdd(RAdd(a, b), c)

\* the percentage of the highest tier threshold that n meets
HighestTierMet(n) ==
    IF n >= 1000 THEN 20
    ELSE IF n >= 500 THEN 15
    ELSE IF n >= 250 THEN 10
    ELSE IF n >= 100 THEN 5
    ELSE 0

\* C1: in every cost breakdown stored in a quotation by Calculate Quote, tax is
\* 10% of (subtotal - discount) and total is (subtotal - discount) * 1.10, the
\* discount being the stored bulk discount (none when no discount was merged).
C1_TaxAfterDiscount ==
    current_quote # None =>
        LET c == current_quote.costs
            discount == Get(c, "discount", R(0))
            net == RSub(c.subtotal, discount)
        IN  /\ c.tax = RMul(net, Rat(10, 100))
            /\ c.total = RMul(net, Rat(110, 100))

\* C2: calculate_bulk_discount returns the percentage of the highest tier
\* threshold that total_units meets: 20 from 1000, 15 from 500, 10 from 250,
\* 5 from 100, else 0.
C2_HighestTier ==
    Returned("calculate_bulk_discount") =>
        ret.discount_percentage = HighestTierMet(call.quantity)

C2_Witness ==
    /\ Returned("calculate_bulk_discount")
    /\ call.quantity = 1000
    /\ ret.discount_percentage = 20

\* C3: for a fixed subtotal the discount percentage never decreases when the
\* unit count grows: the percentage returned for n1 is at most the percentage
\* of every n2 >= n1.
C3_DiscountMonotone ==
    Returned("calculate_bulk_discount") =>
        \A n2 \in call.quantity..MaxUnits :
            ret.discount_percentage
                <= calculate_bulk_discount(call.subtotal, n2).discount_percentage

C3_Witness ==
    /\ Returned("calculate_bulk_discount")
    /\ call.quantity = 250
    /\ ret.discount_percentage = 10
    /\ calculate_bulk_discount(call.subtotal, 499).discount_percentage = 10
    /\ calculate_bulk_discount(call.subtotal, 500).discount_percentage = 15

\* C4: calculate_bulk_discount returns discount = subtotal * percentage / 100
\* and subtotal_after_discount = subtotal - discount; below the first tier the
\* percentage and the discount are 0 and subtotal_after_discount is subtotal.
C4_DiscountAmount ==
    Returned("calculate_bulk_discount") =>
        /\ ret.discount =
             RMul(RMul(call.subtotal, R(ret.discount_percentage)), Rat(1, 100))
        /\ RAdd(ret.subtotal_after_discount, ret.discount) = call.subtotal
        /\ call.quantity < 100 =>
             /\ ret.discount_percentage = 0
             /\ ret.discount = R(0)
             /\ ret.subtotal_after_discount = call.subtotal

C4_Witness ==
    /\ Returned("calculate_bulk_discount")
    /\ call.quantity = 150
    /\ call.subtotal = R(1000)
    /\ ret.discount = R(50)
    /\ ret.subtotal_after_discount = R(950)

\* C5: calculate_costs returns material_cost = height * width * depth * rate *
\* units and finish_cost = (height * width * depth * rate) * (multiplier - 1) *
\* units: the finish cost is the added cost only, so material_cost + finish_cost
\* is the material cost times the multiplier.
C5_MaterialAndFinish ==
    Returned("calculate_costs") =>
        LET per_unit == RMul(call.height,
                             RMul(call.width, RMul(call.depth, call.material_info.rate)))
            m == finish_multiplier(call.finish)
        IN  /\ ret.material_cost = RMul(R(call.quantity), per_unit)
            /\ ret.finish_cost =
                 RMul(R(call.quantity), RSub(RMul(per_unit, m), per_unit))
            /\ RAdd(ret.material_cost, ret.finish_cost) = RMul(ret.material_cost, m)

C5_Witness ==
    /\ Returned("calculate_costs")
    /\ call.finish = "Painted"
    /\ call.height = R(12) /\ call.width = R(8) /\ call.depth = R(2)
    /\ call.material_info.rate = Rat(3, 100)
    /\ call.quantity = 3
    /\ ret.material_cost = Rat(1728, 100)
    /\ ret.finish_cost = Rat(432, 100)

\* C6: for the finish "Standard" and for a finish name that is not in the
\* multiplier table, calculate_costs returns finish_cost = 0 and the same
\* breakdown as for a multiplier of 1.0.
C6_StandardOrUnknownFinish ==
    (/\ Returned("calculate_costs")
     /\ call.finish \notin {"Painted", "High Gloss", "Matte"}) =>
        /\ ret.finish_cost = R(0)
        /\ ret.subtotal = RAdd(ret.material_cost, ret.options_cost)
        /\ ret.total = RMul(RAdd(ret.material_cost, ret.options_cost), Rat(11, 10))

C6_Witness ==
    /\ Returned("calculate_costs")
    /\ call.finish = "Mirrored"
    /\ RLt(R(0), ret.material_cost)
    /\ ret.finish_cost = R(0)

\* C7: options_cost is total_units times the sum of three independent terms:
\* area * 15 * 1.2 if LED lighting, volume * 2 if mounting hardware, area * 5 if
\* installation (area = height * width, volume = height * width * depth).
OptionTerm(flag, amount) == IF flag THEN amount ELSE R(0)

C7_OptionsCost ==
    Returned("calculate_costs") =>
        LET area == RMul(call.height, call.width)
            volume == RMul(area, call.depth)
        IN  ret.options_cost =
              RMul(R(call.quantity),
                   RSum3(OptionTerm(call.led_lighting, RMul(area, R(18))),
                         OptionTerm(call.mounting_hardware, RMul(volume, R(2))),
                         OptionTerm(call.installation, RMul(area, R(5)))))

C7_Witness ==
    /\ Returned("calculate_costs")
    /\ call.led_lighting /\ call.mounting_hardware /\ call.installation
    /\ call.height = R(12) /\ call.width = R(8) /\ call.depth = R(2)
    /\ call.quantity = 3
    /\ ret.options_cost = R(3 * (1728 + 384 + 480))

\* C8: subtotal = (material cost per unit + finish cost per unit) * total_units
\* + options cost total, which is the sum of the returned material_cost,
\* finish_cost and options_cost.
C8_Subtotal ==
    Returned("calculate_costs") =>
        LET material_per_unit ==
                RMul(RMul(RMul(call.height, call.width), call.depth),
                     call.material_info.rate)
            finish_per_unit ==
                RMul(material_per_unit, RSub(finish_multiplier(call.finish), R(1)))
        IN  /\ ret.subtotal = RSum3(ret.material_cost, ret.finish_cost, ret.options_cost)
            /\ ret.subtotal =
                 RAdd(RMul(RAdd(material_per_unit, finish_per_unit), R(call.quantity)),
                      ret.options_cost)

C8_Witness ==
    /\ Returned("calculate_costs")
    /\ call.quantity = 3
    /\ call.finish = "Matte"
    /\ call.mounting_hardware
    /\ RLt(R(0), ret.material_cost)
    /\ RLt(R(0), ret.finish_cost)
    /\ RLt(R(0), ret.options_cost)

\* C9: for valid inputs (positive rate and dimensions, total_units >= 1, any
\* finish, any flags) material_cost, finish_cost, options_cost, subtotal, tax,
\* total and the bulk discount of the subtotal are non-negative, and
\* total >= subtotal - discount.
ValidCostCall ==
    /\ RLt(R(0), call.material_info.rate)
    /\ RLt(R(0), call.height)
    /\ RLt(R(0), call.width)
    /\ RLt(R(0), call.depth)
    /\ call.quantity >= 1

C9_NonNegative ==
    (Returned("calculate_costs") /\ ValidCostCall) =>
        LET d == calculate_bulk_discount(ret.subtotal, call.quantity)
        IN  /\ \A f \in {"material_cost", "finish_cost", "options_cost",
                         "subtotal", "tax", "total"} : RLe(R(0), ret[f])
            /\ RLe(R(0), d.discount)
            /\ RLe(RSub(ret.subtotal, d.discount), ret.total)

C9_Witness ==
    /\ Returned("calculate_costs")
    /\ ValidCostCall
    /\ call.quantity = 100
    /\ call.finish = "High Gloss"
    /\ call.led_lighting
    /\ RLt(R(0), calculate_bulk_discount(ret.subtotal, call.quantity).discount)
    /\ RLt(R(0), ret.tax)

\* C10: validate_inputs returns true exactly when 0 < height <= 120,
\* 0 < width <= 120, 0 < depth <= 24 and the text has a character that is not
\* whitespace.
InRange(x, max) == x.num > 0 /\ x.num <= max * x.den

C10_ValidateInputs ==
    Returned("validate_inputs") =>
        (ret <=> /\ InRange(call.height, 120)
                 /\ InRange(call.width, 120)
                 /\ InRange(call.depth, 24)
                 /\ \E i \in 1..Len(call.letters) : call.letters[i] \notin Whitespace)

C10_Witness ==
    /\ Returned("validate_inputs")
    /\ call.height = R(120) /\ call.width = R(120) /\ call.depth = R(24)
    /\ call.letters = <<" ", "A">>
    /\ ret = TRUE

\* C11: calculate_delivery_time returns base + volume surcharge + 2 if LED + 1
\* if installation; base is 3 up to 5 units, 5 up to 20, 7 up to 50, 10 up to
\* 100 and 14 above; the surcharge is 2 for a volume over 500, 1 for a volume
\* over 200 and at most 500, else 0.
BaseDays(n) ==
    CASE n <= 5 -> 3
      [] n > 5 /\ n <= 20 -> 5
      [] n > 20 /\ n <= 50 -> 7
      [] n > 50 /\ n <= 100 -> 10
      [] n > 100 -> 14

VolumeSurcharge(v) ==
    CASE v.num > 500 * v.den -> 2
      [] v.num > 200 * v.den /\ v.num <= 500 * v.den -> 1
      [] v.num <= 200 * v.den -> 0

C11_DeliveryTime ==
    Returned("calculate_delivery_time") =>
        ret = BaseDays(call.quantity) + VolumeSurcharge(call.volume)
              + (IF call.led_lighting THEN 2 ELSE 0)
              + (IF call.installation THEN 1 ELSE 0)

C11_Witness ==
    /\ Returned("calculate_delivery_time")
    /\ call.quantity = 120
    /\ call.volume = R(600)
    /\ call.led_lighting /\ call.installation
    /\ ret = 19

\* C15: calculate_costs called with a zero or negative height, width or depth
\* returns no cost breakdown (it signals InvalidDimension); a breakdown is
\* returned only for strictly positive dimensions.
IsBreakdown(r) ==
    {"material_cost", "finish_cost", "options_cost", "subtotal", "tax", "total"}
        \subseteq DOMAIN r

C15_InvalidDimension ==
    (/\ Returned("calculate_costs")
     /\ \/ call.height.num <= 0
        \/ call.width.num <= 0
        \/ call.depth.num <= 0) =>
        ~IsBreakdown(ret)

\* C16: calculate_costs with rate 0.030, height 12, width 8, depth 2, finish
\* "Standard", no options and 3 units returns material_cost 17.28, finish_cost 0,
\* options_cost 0, subtotal 17.28, tax 1.728 and total 19.008.
ScenarioA ==
    /\ call.fn = "calculate_costs"
    /\ call.material_info = [rate |-> Rat(30, 1000)]
    /\ call.height = R(12) /\ call.width = R(8) /\ call.depth = R(2)
    /\ call.quantity = 3
    /\ call.finish = "Standard"
    /\ ~call.led_lighting /\ ~call.mounting_hardware /\ ~call.installation

C16_ScenarioA ==
    (pc = "done" /\ ScenarioA) =>
        ret = [material_cost |-> Rat(1728, 100),
               finish_cost |-> R(0),
               options_cost |-> R(0),
               subtotal |-> Rat(1728, 100),
               tax |-> Rat(1728, 1000),
               total |-> Rat(19008, 1000)]

C16_Witness ==
    /\ pc = "done"
    /\ ScenarioA
    /\ ret.total = Rat(19008, 1000)

\* C18: the result of sanitize_text_input has only allow-listed characters, no
\* "<" and no ">", no character that stood inside a "<...>" sequence of the
\* input, and no leading or trailing whitespace.

\* position i of s lies in a "<...>" sequence: from a "<" to the next ">"
Enclosed(s, i) ==
    \E j \in 1..i, k \in i..Len(s) :
        /\ j < k
        /\ s[j] = "<"
        /\ s[k] = ">"
        /\ \A m \in j..(k - 1) : s[m] # ">"

RECURSIVE NotEnclosedFrom(_, _)
NotEnclosedFrom(s, i) ==
    IF i > Len(s) THEN <<>>
    ELSE (IF Enclosed(s, i) THEN <<>> ELSE <<s[i]>>) \o NotEnclosedFrom(s, i + 1)

RECURSIVE IsSubsequence(_, _)
IsSubsequence(a, b) ==
    IF a = <<>> THEN TRUE
    ELSE IF b = <<>> THEN FALSE
    ELSE IF Head(a) = Head(b) THEN IsSubsequence(Tail(a), Tail(b))
    ELSE IsSubsequence(a, Tail(b))

C18_Sanitized ==
    Returned("sanitize_text_input") =>
        /\ \A i \in 1..Len(ret) :
              /\ ret[i] \in {"A", "B", "C", " ", "\t", "-", ".", ",", "!", "?",
                             "@", "#", "$", "%", "^", "&", "*", "(", ")"}
              /\ ret[i] \notin {"<", ">"}
        /\ IsSubsequence(ret, NotEnclosedFrom(call.text, 1))
        /\ ret # <<>> => (ret[1] \notin {" ", "\t"} /\ ret[Len(ret)] \notin {" ", "\t"})

C18_Witness ==
    /\ Returned("sanitize_text_input")
    /\ call.text = <<"<", "A", ">">>
    /\ ret = <<>>

\* C12: Quotation.from_dict(q.to_dict()) equals q on multi_color, color,
\* color_hex, letter_colors, font, estimated_delivery_days, created_at,
\* quote_id, costs.discount and costs.discount_percentage, whatever the value
\* of multi_color.
C12_RoundTrip ==
    Returned("from_dict_to_dict") =>
        /\ ret.multi_color = call.q.multi_color
        /\ ret.color = call.q.color
        /\ ret.color_hex = call.q.color_hex
        /\ ret.font = call.q.font
        /\ ret.estimated_delivery_days = call.q.estimated_delivery_days
        /\ ret.costs.discount = call.q.costs.discount
        /\ ret.costs.discount_percentage = call.q.costs.discount_percentage
        /\ ret.letter_colors = call.q.letter_colors
        /\ ret.created_at = call.q.created_at
        /\ ret.quote_id = call.q.quote_id

\* C13: from_dict returns a Quotation for a portable form that lacks optional
\* keys: a missing discount or discount_percentage becomes 0, a missing font
\* "default", a missing estimated_delivery_days 7, a missing costs section
\* all-zero costs and a missing options section all-false options.
QuotationFields ==
    {"letters", "material", "dimensions", "quantity", "total_letters", "finish",
     "volume_per_letter", "options", "costs", "multi_color", "color", "color_hex",
     "letter_colors", "font", "estimated_delivery_days", "created_at", "quote_id"}

C13_MissingKeys ==
    Returned("from_dict") =>
        LET data == call.data
            has_costs == "costs" \in DOMAIN data
        IN  /\ DOMAIN ret = QuotationFields
            /\ (has_costs /\ "discount" \notin DOMAIN data.costs) =>
                   ret.costs.discount = R(0)
            /\ (has_costs /\ "discount_percentage" \notin DOMAIN data.costs) =>
                   ret.costs.discount_percentage = 0
            /\ "font" \notin DOMAIN data => ret.font = "default"
            /\ "estimated_delivery_days" \notin DOMAIN data =>
                   ret.estimated_delivery_days = 7
            /\ ~has_costs =>
                   ret.costs = [material_cost |-> R(0), finish_cost |-> R(0),
                                options_cost |-> R(0), subtotal |-> R(0),
                                tax |-> R(0), total |-> R(0), discount |-> R(0),
                                discount_percentage |-> 0]
            /\ "options" \notin DOMAIN data =>
                   ret.options = [led_lighting |-> FALSE,
                                  mounting_hardware |-> FALSE,
                                  installation |-> FALSE]

C13_Witness ==
    /\ Returned("from_dict")
    /\ DOMAIN call.data \cap {"costs", "options", "font", "estimated_delivery_days"} = {}
    /\ "letters" \in DOMAIN call.data
    /\ ret.font = "default"
    /\ ret.estimated_delivery_days = 7
    /\ ret.costs.total = R(0)
    /\ ~ret.options.led_lighting

C19_FontColourNoPricing ==
    current_quote # None =>
        \A font \in FormFonts \cup {"default"}, selected_color \in DOMAIN color_options :
            LET other == build_quotation(current_quote.letters, font,
                                         current_quote.material, current_quote.height,
                                         current_quote.width, current_quote.depth,
                                         current_quote.quantity, current_quote.finish,
                                         current_quote.led_lighting,
                                         current_quote.mounting_hardware,
                                         current_quote.installation,
                                         build_letter_colors(current_quote.letters,
                                                             selected_color))
            IN  /\ other.costs = current_quote.costs
                /\ other.estimated_delivery_days = current_quote.estimated_delivery_days

C19_Witness ==
    /\ current_quote # None
    /\ current_quote.font = "arial"
    /\ current_quote.color = "Red"
    /\ current_quote.letters = <<"A">>
    /\ current_quote.quantity = 1
    /\ current_quote.costs.total = Rat(6336, 1000)

\* C20: every entry of the saved quotations is its own object: it is not the
\* object of another entry, nor the object current_quote refers to.
C20_OwnObjects ==
    \A i \in 1..Len(quotations) :
        /\ current_quote # None => quotations[i].ref # current_ref
        /\ \A j \in 1..Len(quotations) : i # j => quotations[i].ref # quotations[j].ref

\* C29: apply_bulk_discount applies 10% when quantity >= 10 or total_letters
\* >= 100, otherwise 5% when quantity >= 5 or total_letters >= 50; after a
\* discount was applied discount = subtotal * pct / 100, tax = (subtotal -
\* discount) * 0.1 and total = subtotal - discount + tax, and a second call
\* leaves the costs unchanged.
BulkPercent(q) ==
    CASE q.quantity >= 10 \/ q.total_letters >= 100 -> 10
      [] (q.quantity < 10 /\ q.total_letters < 100)
         /\ (q.quantity >= 5 \/ q.total_letters >= 50) -> 5
      [] q.quantity < 5 /\ q.total_letters < 50 -> 0

C29_ApplyBulkDiscount ==
    pc = "apply_bulk_discount" =>
        LET pct == BulkPercent(call.q)
            costs == quotation.costs
        IN  /\ pct = 0 => costs = call.q.costs
            /\ pct > 0 =>
                 /\ costs.discount_percentage = pct
                 /\ costs.subtotal = call.q.costs.subtotal
                 /\ costs.discount = RMul(costs.subtotal, Rat(pct, 100))
                 /\ costs.tax = RMul(RSub(costs.subtotal, costs.discount), Rat(1, 10))
                 /\ costs.total = RAdd(RSub(costs.subtotal, costs.discount), costs.tax)
            /\ apply_bulk_discount(quotation).costs = costs

C29_Witness ==
    /\ pc = "apply_bulk_discount"
    /\ call.q.quantity = 4
    /\ call.q.total_letters = 50
    /\ call.q.costs.discount_percentage = 0
    /\ quotation.costs.discount_percentage = 5
    /\ quotation.costs.discount = Rat(864, 1000)
    /\ quotation.costs.total = Rat(18057600, 1000000)

\* C30: the result of calculate_delivery_time lies between 3 and 19 and does
\* not decrease when total_units grows, when volume grows, or when the LED or
\* the installation flag is switched on.
C30_DeliveryRangeMonotone ==
    Returned("calculate_delivery_time") =>
        /\ ret >= 3
        /\ ret <= 19
        /\ \A quantity \in call.quantity..MaxDeliveryUnits :
              ret <= calculate_delivery_time(quantity, call.volume,
                                             call.led_lighting, call.installation)
        /\ \A volume \in DeliveryVolumes :
              RLe(call.volume, volume) =>
                 ret <= calculate_delivery_time(call.quantity, volume,
                                                call.led_lighting, call.installation)
        /\ ret <= calculate_delivery_time(call.quantity, call.volume, TRUE,
                                          call.installation)
        /\ ret <= calculate_delivery_time(call.quantity, call.volume,
                                          call.led_lighting, TRUE)

C30_Witness ==
    /\ Returned("calculate_delivery_time")
    /\ call.quantity = 100
    /\ call.volume = R(500)
    /\ ~call.led_lighting /\ ~call.installation
    /\ ret = 11
    /\ calculate_delivery_time(101, Rat(5001, 10), TRUE, TRUE) = 19

\* C21: current_quote receives a quotation only in a submission whose
\* validate_inputs call, on the stored (sanitized) letters and the submitted
\* dimensions, returned TRUE, and after calculate_costs, then
\* calculate_bulk_discount when there are 50 units or more, then
\* calculate_delivery_time were called in that order; every calculate_costs
\* call directly follows a validate_inputs call on the same dimensions that
\* returned TRUE.
FnNames(log) == [i \in 1..Len(log) |-> log[i].fn]

LastValidate(log) ==
    CHOOSE i \in 1..Len(log) :
        /\ log[i].fn = "validate_inputs"
        /\ \A j \in (i + 1)..Len(log) : log[j].fn # "validate_inputs"

C21_ValidatedOrder ==
    [][/\ \A i \in 1..Len(calls') :
             calls'[i].fn = "calculate_costs" =>
                /\ i > 1
                /\ calls'[i - 1].fn = "validate_inputs"
                /\ calls'[i - 1].ret
                /\ calls'[i - 1].args.height = calls'[i].args.height
                /\ calls'[i - 1].args.width = calls'[i].args.width
                /\ calls'[i - 1].args.depth = calls'[i].args.depth
       /\ (current_quote' # None /\ current_quote' # current_quote) =>
             /\ \E i \in 1..Len(calls') : calls'[i].fn = "validate_inputs"
             /\ LET handler == SubSeq(calls', LastValidate(calls'), Len(calls'))
                IN  /\ handler[1].ret
                    /\ handler[1].args.letters = current_quote'.letters
                    /\ handler[1].args.letters = letter_properties.letters
                    /\ handler[1].args.height = current_quote'.height
                    /\ handler[1].args.width = current_quote'.width
                    /\ handler[1].args.depth = current_quote'.depth
                    /\ FnNames(handler) =
                         IF current_quote'.total_letters >= 50
                         THEN <<"validate_inputs", "calculate_costs",
                                "calculate_bulk_discount", "calculate_delivery_time">>
                         ELSE <<"validate_inputs", "calculate_costs",
                                "calculate_delivery_time">>]_vars

C21_Witness ==
    /\ current_quote # None
    /\ current_quote.total_letters = 50
    /\ FnNames(calls) = <<"validate_inputs", "calculate_costs", "validate_inputs",
                          "calculate_costs", "calculate_bulk_discount",
                          "calculate_delivery_time">>

C23_TotalLetters ==
    current_quote # None =>
        LET n == Len(strip(current_quote.letters))
            units == current_quote.total_letters
        IN  /\ units = n * current_quote.quantity
            /\ \A i \in 1..Len(calls) :
                  calls[i].fn \in {"calculate_costs", "calculate_bulk_discount",
                                   "calculate_delivery_time"} =>
                     calls[i].args.quantity = units
            /\ \E i \in 1..Len(calls) : calls[i].fn = "calculate_costs"
            /\ \E i \in 1..Len(calls) : calls[i].fn = "calculate_delivery_time"
            /\ units >= 50 =>
                  \E i \in 1..Len(calls) : calls[i].fn = "calculate_bulk_discount"

C23_Witness ==
    /\ current_quote # None
    /\ current_quote.letters = <<"A", "A">>
    /\ current_quote.quantity = 50
    /\ current_quote.total_letters = 100
    /\ \E i \in 1..Len(calls) :
          /\ calls[i].fn = "calculate_bulk_discount"
          /\ calls[i].args.quantity = 100

\* C24: in a quotation built by the form the keys of letter_colors are the
\* positions "0" .. "n-1" of the trimmed letters, one entry per position even
\* when a letter repeats, and color and color_hex are those of position "0".
C24_LetterColorKeys ==
    current_quote # None =>
        LET n == Len(strip(current_quote.letters))
        IN  /\ n >= 1
            /\ DOMAIN current_quote.letter_colors = {str(i) : i \in 0..(n - 1)}
            /\ Cardinality(DOMAIN current_quote.letter_colors) = n
            /\ current_quote.color = current_quote.letter_colors["0"].name
            /\ current_quote.color_hex = current_quote.letter_colors["0"].hex

C24_Witness ==
    /\ current_quote # None
    /\ current_quote.letters = <<"A", "A">>
    /\ DOMAIN current_quote.letter_colors = {"0", "1"}
    /\ current_quote.letter_colors["1"].char = "A"
    /\ current_quote.color = "Red"
    /\ current_quote.color_hex = "#b22222"

\* C25: for every finish of config.FINISHES the multiplier calculate_costs
\* applies is the catalog's multiplier, and the LED, mounting-hardware and
\* installation rates it applies are those of config.OPTIONS.
C25_CatalogPricing ==
    Returned("calculate_costs") =>
        LET area == RMul(call.height, call.width)
            volume == RMul(area, call.depth)
        IN  /\ call.finish \in DOMAIN FINISHES =>
                  ret.finish_cost =
                     RMul(ret.material_cost,
                          RSub(FINISHES[call.finish].multiplier, R(1)))
            /\ ret.options_cost =
                  RMul(R(call.quantity),
                       RSum3(OptionTerm(call.led_lighting,
                                        RMul(RMul(area, OPTIONS.led_lighting.base_rate),
                                             OPTIONS.led_lighting.multiplier)),
                             OptionTerm(call.mounting_hardware,
                                        RMul(volume, OPTIONS.mounting_hardware.base_rate)),
                             OptionTerm(call.installation,
                                        RMul(area, OPTIONS.installation.base_rate))))

\* C26: while the authenticated flag of the form's session is false, no step
\* changes the form's state: nothing is submitted, calculated, cleared or saved.
C26_AccessGating ==
    [][~sessions[Session].authenticated
         => UNCHANGED <<letter_properties, step1_completed, current_quote, current_ref,
                        quotations, calls>>]_vars

\* the session logged out with a calculated quote and the options form behind the login page
C26_Witness ==
    /\ sessions[Session].started
    /\ ~sessions[Session].authenticated
    /\ Step2Visible(step1_completed, letter_properties)
    /\ current_quote # None
    /\ Len(quotations) > 0

\* C27: register_user returns True at most once for a username, and a username it
\* returned True for is in the user store from then on.
C27_RegisterOnce ==
    \A u \in Usernames :
        /\ registered[u] <= 1
        /\ registered[u] > 0 => u \in DOMAIN users

\* C28: a session is authenticated only if authenticate_user accepted credentials
\* presented in that session.
C28_AuthenticatedByCredentials ==
    \A s \in Sessions : sessions[s].authenticated => sessions[s].presented

====
